---- MODULE Spec2Model ----
(***************************************************************************)
(* Model of pb's entry point (src/main.go): the configuration bootstrap    *)
(* in main(), the cobra pre-run / run / post-run chain of the command      *)
(* tree, and the WaitGroup barrier around the telemetry goroutines.        *)
(***************************************************************************)
EXTENDS Integers, Sequences, FiniteSets, TLC

\* ------------------------------------------------------------------------
\* Bounds
\* ------------------------------------------------------------------------
\* number of successive process invocations explored
MaxRuns == 2

\* number of writes of the configuration file by another pb instance
MaxOtherWrites == 1

\* ------------------------------------------------------------------------
\* Data
\* ------------------------------------------------------------------------
Names == {"demo", "work"}

defaultInitialProfile ==
    [url |-> "https://demo.parseable.com", username |-> "admin", password |-> "admin"]

\* a demo entry left behind by an older release / edited by hand
StaleDemoProfile ==
    [url |-> "http://old.parseable.com", username |-> "demo", password |-> "demo"]

WorkProfile ==
    [url |-> "https://work.example.com", username |-> "alice", password |-> "secret"]

InitProfileVals == {defaultInitialProfile, StaleDemoProfile, WorkProfile}

EmptyProfiles == [n \in {} |-> defaultInitialProfile]

Put(f, k, v) == [n \in (DOMAIN f) \cup {k} |-> IF n = k THEN v ELSE f[n]]

Drop(f, k) == [n \in (DOMAIN f) \ {k} |-> f[n]]

\* the persisted configuration file: absent, unreadable/corrupt, or a Config
AbsentFile == [kind |-> "absent", profiles |-> EmptyProfiles, defaultProfile |-> ""]

BadFile == [kind |-> "bad", profiles |-> EmptyProfiles, defaultProfile |-> ""]

ConfigFile(p, d) == [kind |-> "config", profiles |-> p, defaultProfile |-> d]

InitConfigs ==
    { ConfigFile(p, d) :
        p \in UNION { [S -> InitProfileVals] : S \in SUBSET Names },
        d \in {"", "demo", "work"} }

InitFiles == {AbsentFile, BadFile} \cup InitConfigs

\* Configuration invariant of the data model: a non-empty defaultProfile
\* names an entry of profiles.
ValidConfig(c) == c.defaultProfile = "" \/ c.defaultProfile \in DOMAIN c.profiles

\* *config.Config values as seen by main(): a nil pointer, a zero Config
\* whose Profiles map is nil, or a Config with a map
NilPtr == [kind |-> "nilptr", profiles |-> EmptyProfiles, defaultProfile |-> ""]

NilMapConfig == [kind |-> "nilmap", profiles |-> EmptyProfiles, defaultProfile |-> ""]

Value(p, d) == [kind |-> "value", profiles |-> p, defaultProfile |-> d]

\* config.ReadConfigFromFile: the (config, err) pairs a read can return.
\* Absence is os.IsNotExist; any other failure (unreadable, corrupt, a
\* defaultProfile naming no profile) is an error of another kind, and the
\* Config returned next to it is not determined.
ReadConfigFromFile(f) ==
    IF f.kind = "absent" THEN {[err |-> "notexist", cfg |-> NilPtr]}
    ELSE IF f.kind = "bad"
      THEN {[err |-> "other", cfg |-> c] : c \in {NilPtr, NilMapConfig, Value(EmptyProfiles, "")}}
    ELSE IF ValidConfig(f)
      THEN {[err |-> "nil", cfg |-> Value(f.profiles, f.defaultProfile)]}
    ELSE {[err |-> "other", cfg |-> c] :
             c \in {NilPtr, NilMapConfig, Value(f.profiles, f.defaultProfile)}}

\* config.WriteConfigToFile: all-or-nothing; it can fail
WriteConfigToFile == {"ok", "fail"}

\* main(), line 316: the branch taken on the read's error
IsCreateBranch(err) == err = "notexist"

\* a default configuration whose defaultProfile names no profile
NewDefaultConfig_wrongDefault ==
    Value(Put(EmptyProfiles, "demo", defaultInitialProfile), "default")

\* main(), lines 317-320
NewDefaultConfig == Value(Put(EmptyProfiles, "demo", defaultInitialProfile), "demo")

\* a merge that refreshes an existing demo profile but never adds one
MergeDemoProfile_noInsert(prev) ==
    IF "demo" \in DOMAIN prev.profiles
    THEN [prev EXCEPT !.profiles["demo"] =
              [@ EXCEPT !.url = "http://demo.parseable.com",
                        !.username = "admin",
                        !.password = "admin"]]
    ELSE prev

\* a merge that rebuilds the configuration around the demo profile
MergeDemoProfile_replaceAll(prev) ==
    [prev EXCEPT !.profiles = Put(EmptyProfiles, "demo", defaultInitialProfile),
                 !.defaultProfile = "demo"]

\* main(), lines 328-339: the update of previousConfig in the else branch
MergeDemoProfile(prev) ==
    IF "demo" \in DOMAIN prev.profiles
    THEN [prev EXCEPT !.profiles["demo"] =
              [@ EXCEPT !.url = "http://demo.parseable.com",
                        !.username = "admin",
                        !.password = "admin"]]
    ELSE [prev EXCEPT !.profiles = Put(@, "demo", defaultInitialProfile),
                      !.defaultProfile = "demo"]

\* a nil *Config panics at line 328, a nil Profiles map at line 337
MergePanics(prev) == prev.kind \in {"nilptr", "nilmap"}


\* ------------------------------------------------------------------------
\* Command tree
\* ------------------------------------------------------------------------
\* "root": pb with no sub-command; "version": a command attached directly
\* to the root; "profile", "query": leaves of groups whose pre-run hook is
\* combinedPreRun ("profile" leaves edit the configuration)
Commands == {"root", "version", "profile", "query"}

GroupCommands == {"profile", "query"}

\* cli.PersistentPreRunE, line 58
rootPreRunHooks == <<"ulid">>

\* the two steps of combinedPreRun in the opposite order
combinedPreRunHooks_ulidFirst == <<"ulid", "resolve">>

\* combinedPreRun, lines 357-368: the order of its two steps
combinedPreRunHooks == <<"resolve", "ulid">>

\* cobra runs the nearest PersistentPreRunE on the path to the root
PreRunHooks(c) == IF c \in GroupCommands THEN combinedPreRunHooks ELSE rootPreRunHooks

\* a combinedPreRun that drops the error of a failed step
combinedPreRunReturnsError_swallow(stepFailed) == FALSE

\* combinedPreRun, lines 359-365: a failed step makes the hook return an error
combinedPreRunReturnsError(stepFailed) == stepFailed

\* a post-run hook that does not look at PB_ANALYTICS
PersistentPostRunAdds_ignoreFlag(analyticsDisabled) == 1

\* a post-run hook with the PB_ANALYTICS test inverted
PersistentPostRunAdds_inverted(analyticsDisabled) == IF analyticsDisabled THEN 1 ELSE 0

\* a PersistentPostRun hook, lines 66-75 (and 83-254): wg.Add(1) calls made
PersistentPostRunAdds(analyticsDisabled) == IF analyticsDisabled THEN 0 ELSE 1

\* cobra's Command.execute returns the error of RunE before the post-run hooks
PostRunRuns(runOk) == runOk

\* a main() that exits without the barrier wait
CallsWait_never(err) == FALSE

\* a main() that waits on the barrier before looking at the error
CallsWait_always(err) == TRUE

\* main(), lines 349-353: wg.Wait() is reached only when Execute returned nil
CallsWait(err) == ~err

\* main(), lines 350-354: exit status after Execute
ExitStatus(err) == IF err THEN 1 ELSE 0

\* pb.PreRunDefaultProfile as ProfileResolver.Resolve: the error, "" for none
NoName == ""

Resolve(c, requested) ==
    IF c.kind # "config" THEN "ConfigUnreadable"
    ELSE IF requested # NoName
      THEN (IF requested \in DOMAIN c.profiles THEN "" ELSE "ProfileNotFound")
    ELSE IF c.defaultProfile = "" THEN "NoDefaultProfile"
    ELSE IF c.defaultProfile \notin DOMAIN c.profiles THEN "DefaultProfileMissing"
    ELSE ""

\* the configurations a "profile" leaf (add, remove, default) can persist
ProfileBodyEdits(c) ==
    {ConfigFile(Put(c.profiles, "work", WorkProfile), c.defaultProfile)}
    \cup {ConfigFile(Drop(c.profiles, n),
                     IF c.defaultProfile = n THEN "" ELSE c.defaultProfile) :
              n \in DOMAIN c.profiles}
    \cup {ConfigFile(c.profiles, n) : n \in DOMAIN c.profiles}

\* ------------------------------------------------------------------------
\* State
\* ------------------------------------------------------------------------
VARIABLES
    file,            \* the persisted configuration file
    startFile,       \* the file as it was when this process started
    ulid,            \* the session identity file: "absent" or "present"
    runs,            \* process invocations started so far
    pc,              \* position of main()
    cmd,             \* the command this invocation dispatches to
    analyticsOff,    \* PB_ANALYTICS=disable in this process
    readErr,         \* err of ReadConfigFromFile: "none" before the read
    previousConfig,  \* previousConfig in main()
    loaded,          \* previousConfig as the read returned it
    hookIdx,         \* next step of the pre-run hook
    preRunLog,       \* steps performed before the command body, in order
    preRunFailed,    \* a pre-run step failed
    bodyRan,         \* the command body was entered
    bodyOk,          \* the command body returned nil
    executeErr,      \* cli.Execute returned an error
    returned,        \* cli.Execute has returned
    dispatched,      \* telemetry goroutines spawned by this process
    wg,              \* the WaitGroup counter
    task,            \* the telemetry goroutine
    sinkCalls,       \* calls of analytics.PostRunAnalytics in this process
    waitCalls,       \* calls of wg.Wait in this process
    exitCode,        \* -1 while the process runs
    bootWrote,       \* the bootstrap wrote the file in this process
    bootWriteFailed, \* the bootstrap's WriteConfigToFile returned an error
    taskResult,      \* outcome of PostRunAnalytics: "none", "ok" or "failed"
    otherWrites,     \* writes of the file by another pb instance so far
    raceFile,        \* the file as another instance left it between this
                     \* process's bootstrap read and bootstrap write
    bootLog          \* configurations persisted by successive bootstraps
                     \* since the file was last edited by a command

vars == <<file, startFile, ulid, runs, pc, cmd, analyticsOff, readErr, previousConfig,
          loaded, hookIdx, preRunLog, preRunFailed, bodyRan, bodyOk,
          executeErr, returned, dispatched, wg, task, sinkCalls, waitCalls,
          exitCode, bootWrote, bootWriteFailed, taskResult, otherWrites,
          raceFile, bootLog>>

\* no write by another instance was seen
NoRace == [kind |-> "none", profiles |-> EmptyProfiles, defaultProfile |-> ""]

FreshProcess ==
    /\ pc' = "start"
    /\ readErr' = "none"
    /\ previousConfig' = NilPtr
    /\ loaded' = NilPtr
    /\ hookIdx' = 1
    /\ preRunLog' = << >>
    /\ preRunFailed' = FALSE
    /\ bodyRan' = FALSE
    /\ bodyOk' = FALSE
    /\ executeErr' = FALSE
    /\ returned' = FALSE
    /\ dispatched' = 0
    /\ wg' = 0
    /\ task' = "none"
    /\ sinkCalls' = 0
    /\ waitCalls' = 0
    /\ exitCode' = -1
    /\ bootWrote' = FALSE
    /\ bootWriteFailed' = FALSE
    /\ taskResult' = "none"
    /\ raceFile' = NoRace

Init ==
    /\ file \in InitFiles
    /\ startFile = file
    /\ ulid \in {"absent", "present"}
    /\ runs = 1
    /\ cmd \in Commands
    /\ analyticsOff \in BOOLEAN
    /\ pc = "start"
    /\ readErr = "none"
    /\ previousConfig = NilPtr
    /\ loaded = NilPtr
    /\ hookIdx = 1
    /\ preRunLog = << >>
    /\ preRunFailed = FALSE
    /\ bodyRan = FALSE
    /\ bodyOk = FALSE
    /\ executeErr = FALSE
    /\ returned = FALSE
    /\ dispatched = 0
    /\ wg = 0
    /\ task = "none"
    /\ sinkCalls = 0
    /\ waitCalls = 0
    /\ exitCode = -1
    /\ bootWrote = FALSE
    /\ bootWriteFailed = FALSE
    /\ taskResult = "none"
    /\ otherWrites = 0
    /\ raceFile = NoRace
    /\ bootLog = << >>

\* os.Exit / panic / return from main: the process and its goroutines end
Exit(code) ==
    /\ pc' = "exited"
    /\ exitCode' = code

\* ------------------------------------------------------------------------
\* main(): bootstrap, lines 315-347
\* ------------------------------------------------------------------------
\* line 316: previousConfig, err := config.ReadConfigFromFile()
ReadConfig ==
    /\ pc = "start"
    /\ \E r \in ReadConfigFromFile(file) :
        /\ readErr' = r.err
        /\ previousConfig' = r.cfg
        /\ loaded' = r.cfg
        /\ pc' = IF IsCreateBranch(r.err) THEN "create" ELSE "merge"
    /\ UNCHANGED <<bootWriteFailed, taskResult, otherWrites, raceFile>>
    /\ UNCHANGED <<startFile, file, ulid, runs, cmd, analyticsOff, hookIdx, preRunLog,
                   preRunFailed, bodyRan, bodyOk, executeErr, returned,
                   dispatched, wg, task, sinkCalls, waitCalls, exitCode,
                   bootWrote, bootLog>>

\* a bootstrap that goes on after a failed write
WriteFailureExits_swallow(w) == FALSE

\* lines 322-325 and 343-346: a failed write ends the process with os.Exit(1)
WriteFailureExits(w) == w = "fail"

\* a merge that reads the file again right before it writes
MergeInput_reread(prev, onDisk) ==
    IF onDisk.kind = "config" THEN Value(onDisk.profiles, onDisk.defaultProfile) ELSE prev

\* lines 326-342: the configuration merged and written back is the one read
\* at line 316; the file is neither locked nor read again before the write
MergeInput(prev, onDisk) == prev

\* lines 317-325: create the default configuration
CreateDefault ==
    /\ pc = "create"
    /\ \E w \in WriteConfigToFile :
        /\ file' = IF w = "ok"
                   THEN ConfigFile(NewDefaultConfig.profiles, NewDefaultConfig.defaultProfile)
                   ELSE file
        /\ bootWrote' = (w = "ok")
        /\ bootWriteFailed' = (w = "fail")
        /\ bootLog' = IF w = "ok"
                      THEN Append(bootLog, [from |-> "create", cfg |-> file'])
                      ELSE bootLog
        /\ IF WriteFailureExits(w)
           THEN /\ Exit(1)
                /\ UNCHANGED preRunLog
           ELSE /\ pc' = "booted"
                /\ preRunLog' = Append(preRunLog, "bootstrap")
                /\ UNCHANGED exitCode
    /\ UNCHANGED <<taskResult, otherWrites, raceFile>>
    /\ UNCHANGED <<startFile, ulid, runs, cmd, analyticsOff, readErr, previousConfig,
                   loaded, hookIdx, preRunFailed, bodyRan, bodyOk, executeErr,
                   returned, dispatched, wg, task, sinkCalls, waitCalls>>

\* lines 326-347: update the demo profile of previousConfig and write it back
MergeDemo ==
    /\ pc = "merge"
    /\ IF MergePanics(previousConfig)
       THEN /\ Exit(2)
            /\ UNCHANGED <<file, previousConfig, bootWrote, bootWriteFailed,
                           bootLog, preRunLog>>
       ELSE /\ previousConfig' = MergeDemoProfile(MergeInput(previousConfig, file))
            /\ \E w \in WriteConfigToFile :
                /\ file' = IF w = "ok"
                           THEN ConfigFile(previousConfig'.profiles,
                                           previousConfig'.defaultProfile)
                           ELSE file
                /\ bootWrote' = (w = "ok")
                /\ bootWriteFailed' = (w = "fail")
                /\ bootLog' = IF w = "ok"
                              THEN Append(bootLog, [from |-> "merge", cfg |-> file'])
                              ELSE bootLog
                /\ IF WriteFailureExits(w)
                   THEN /\ Exit(1)
                        /\ UNCHANGED preRunLog
                   ELSE /\ pc' = "booted"
                        /\ preRunLog' = Append(preRunLog, "bootstrap")
                        /\ UNCHANGED exitCode
    /\ UNCHANGED <<taskResult, otherWrites, raceFile>>
    /\ UNCHANGED <<startFile, ulid, runs, cmd, analyticsOff, readErr, loaded, hookIdx,
                   preRunFailed, bodyRan, bodyOk, executeErr, returned,
                   dispatched, wg, task, sinkCalls, waitCalls>>

\* ------------------------------------------------------------------------
\* cli.Execute(), line 349: pre-run hook, command body, post-run hook
\* ------------------------------------------------------------------------
Execute ==
    /\ pc = "booted"
    /\ pc' = "prerun"
    /\ UNCHANGED <<bootWriteFailed, taskResult, otherWrites, raceFile>>
    /\ UNCHANGED <<startFile, file, ulid, runs, cmd, analyticsOff, readErr, previousConfig,
                   loaded, hookIdx, preRunLog, preRunFailed, bodyRan, bodyOk,
                   executeErr, returned, dispatched, wg, task, sinkCalls,
                   waitCalls, exitCode, bootWrote, bootLog>>

\* the error a hook hands to cobra for a failed step
HookReturnsError(c, stepFailed) ==
    IF c \in GroupCommands THEN combinedPreRunReturnsError(stepFailed) ELSE stepFailed

\* one step of the pre-run hook: pb.PreRunDefaultProfile (line 358) or
\* analytics.CheckAndCreateULID (lines 58, 363)
PreRunStep ==
    /\ pc = "prerun"
    /\ hookIdx <= Len(PreRunHooks(cmd))
    /\ LET step == PreRunHooks(cmd)[hookIdx] IN
       \E requested \in {NoName, "work"}, io \in {"ok", "fail"} :
         LET failed == IF step = "resolve" THEN Resolve(file, requested) # ""
                       ELSE io = "fail"
         IN /\ (step = "resolve" => io = "ok")
            /\ (step = "ulid" => requested = NoName)
            /\ preRunLog' = Append(preRunLog, step)
            /\ ulid' = IF step = "ulid" /\ ~failed THEN "present" ELSE ulid
            /\ preRunFailed' = (preRunFailed \/ failed)
            /\ IF HookReturnsError(cmd, failed)
               THEN /\ executeErr' = TRUE
                    /\ returned' = TRUE
                    /\ pc' = "returned"
                    /\ UNCHANGED hookIdx
               ELSE /\ hookIdx' = hookIdx + 1
                    /\ pc' = IF hookIdx' > Len(PreRunHooks(cmd)) THEN "body" ELSE "prerun"
                    /\ UNCHANGED <<executeErr, returned>>
    /\ UNCHANGED <<bootWriteFailed, taskResult, otherWrites, raceFile>>
    /\ UNCHANGED <<startFile, file, runs, cmd, analyticsOff, readErr, previousConfig, loaded,
                   bodyRan, bodyOk, dispatched, wg, task, sinkCalls, waitCalls,
                   exitCode, bootWrote, bootLog>>

\* the results the body of command c can produce: cli.RunE (lines 59-65)
\* fails unless the version flag is set, VersionCmd.Run (lines 305-307)
\* cannot fail, the leaves of pb/cmd succeed or fail
BodyResults(c) ==
    IF c = "version" THEN {TRUE} ELSE BOOLEAN

\* the command body; a successful "profile" leaf may rewrite the file
RunBody ==
    /\ pc = "body"
    /\ \E ok \in BodyResults(cmd) :
        /\ bodyRan' = TRUE
        /\ bodyOk' = ok
        /\ executeErr' = ~ok
        /\ IF PostRunRuns(ok)
           THEN pc' = "postrun" /\ UNCHANGED returned
           ELSE pc' = "returned" /\ returned' = TRUE
        /\ \E f \in (IF cmd = "profile" /\ ok THEN ProfileBodyEdits(file) \cup {file}
                     ELSE {file}) :
             /\ file' = f
             /\ bootLog' = IF f = file THEN bootLog ELSE << >>
    /\ UNCHANGED <<bootWriteFailed, taskResult, otherWrites, raceFile>>
    /\ UNCHANGED <<startFile, ulid, runs, cmd, analyticsOff, readErr, previousConfig, loaded,
                   hookIdx, preRunLog, preRunFailed, dispatched, wg, task,
                   sinkCalls, waitCalls, exitCode, bootWrote>>

\* a hook that runs the telemetry call itself instead of starting a goroutine
DispatchedTask_inline == "finished"

\* lines 71-74: the go statement starts the goroutine and returns; the body
\* of the goroutine has not run yet
DispatchedTask == "spawned"

\* the PersistentPostRun hook of the command's group, lines 66-75
PostRun ==
    /\ pc = "postrun"
    /\ LET n == PersistentPostRunAdds(analyticsOff) IN
        /\ wg' = wg + n
        /\ dispatched' = dispatched + n
        /\ task' = IF n > 0 THEN DispatchedTask ELSE task
    /\ returned' = TRUE
    /\ pc' = "returned"
    /\ UNCHANGED <<bootWriteFailed, taskResult, otherWrites, raceFile>>
    /\ UNCHANGED <<startFile, file, ulid, runs, cmd, analyticsOff, readErr, previousConfig,
                   loaded, hookIdx, preRunLog, preRunFailed, bodyRan, bodyOk,
                   executeErr, sinkCalls, waitCalls, exitCode, bootWrote, bootLog>>

\* the goroutine of lines 71-74 calls analytics.PostRunAnalytics
TaskRun ==
    /\ pc # "exited"
    /\ task = "spawned"
    /\ task' = "running"
    /\ sinkCalls' = sinkCalls + 1
    /\ UNCHANGED <<bootWriteFailed, taskResult, otherWrites, raceFile>>
    /\ UNCHANGED <<startFile, file, ulid, runs, pc, cmd, analyticsOff, readErr,
                   previousConfig, loaded, hookIdx, preRunLog, preRunFailed,
                   bodyRan, bodyOk, executeErr, returned, dispatched, wg,
                   waitCalls, exitCode, bootWrote, bootLog>>

\* a goroutine without its deferred wg.Done
WgAfterDone_missing(counter) == counter

\* line 72: defer wg.Done()
WgAfterDone(counter) == counter - 1

\* a telemetry failure that is handed to the command's error
TaskErrorToCommand_propagates(result, err) == err \/ result = "failed"

\* lines 71-74: the goroutine calls PostRunAnalytics as a statement; nothing
\* of its outcome reaches the error of the command
TaskErrorToCommand(result, err) == err

\* PostRunAnalytics returns (whatever its outcome) and the deferred wg.Done runs
TaskDone ==
    /\ pc # "exited"
    /\ task = "running"
    /\ task' = "finished"
    /\ \E r \in {"ok", "failed"} :
        /\ taskResult' = r
        /\ executeErr' = TaskErrorToCommand(r, executeErr)
    /\ wg' = WgAfterDone(wg)
    /\ UNCHANGED <<bootWriteFailed, otherWrites, raceFile>>
    /\ UNCHANGED <<startFile, file, ulid, runs, pc, cmd, analyticsOff, readErr,
                   previousConfig, loaded, hookIdx, preRunLog, preRunFailed,
                   bodyRan, bodyOk, returned, dispatched, sinkCalls,
                   waitCalls, exitCode, bootWrote, bootLog>>

\* PostRunAnalytics blocks for ever (nothing in lines 71-74 bounds the call)
TaskHang ==
    /\ pc # "exited"
    /\ task = "running"
    /\ task' = "hung"
    /\ UNCHANGED <<bootWriteFailed, taskResult, otherWrites, raceFile>>
    /\ UNCHANGED <<startFile, file, ulid, runs, pc, cmd, analyticsOff, readErr,
                   previousConfig, loaded, hookIdx, preRunLog, preRunFailed,
                   bodyRan, bodyOk, executeErr, returned, dispatched, wg,
                   sinkCalls, waitCalls, exitCode, bootWrote, bootLog>>

\* ------------------------------------------------------------------------
\* main(), lines 350-354
\* ------------------------------------------------------------------------
AfterExecute ==
    /\ pc = "returned"
    /\ IF CallsWait(executeErr)
       THEN /\ waitCalls' = waitCalls + 1
            /\ pc' = "waiting"
            /\ UNCHANGED exitCode
       ELSE /\ Exit(ExitStatus(executeErr))
            /\ UNCHANGED waitCalls
    /\ UNCHANGED <<bootWriteFailed, taskResult, otherWrites, raceFile>>
    /\ UNCHANGED <<startFile, file, ulid, runs, cmd, analyticsOff, readErr, previousConfig,
                   loaded, hookIdx, preRunLog, preRunFailed, bodyRan, bodyOk,
                   executeErr, returned, dispatched, wg, task, sinkCalls,
                   bootWrote, bootLog>>

\* a barrier wait that gives up after a while
WaitMayReturn_timeout(counter) == TRUE

\* line 353: wg.Wait() blocks until the counter is zero; it has no timeout
WaitMayReturn(counter) == counter = 0

\* wg.Wait() returns once the counter is zero, and main returns
WaitReturns ==
    /\ pc = "waiting"
    /\ WaitMayReturn(wg)
    /\ Exit(ExitStatus(executeErr))
    /\ UNCHANGED <<bootWriteFailed, taskResult, otherWrites, raceFile>>
    /\ UNCHANGED <<startFile, file, ulid, runs, cmd, analyticsOff, readErr, previousConfig,
                   loaded, hookIdx, preRunLog, preRunFailed, bodyRan, bodyOk,
                   executeErr, returned, dispatched, wg, task, sinkCalls,
                   waitCalls, bootWrote, bootLog>>

\* the user starts pb again
StartProcess ==
    /\ pc = "exited"
    /\ runs < MaxRuns
    /\ runs' = runs + 1
    /\ cmd' \in Commands
    /\ analyticsOff' \in BOOLEAN
    /\ FreshProcess
    /\ startFile' = file
    /\ UNCHANGED <<file, ulid, bootLog, otherWrites>>

Next ==
    \/ ReadConfig
    \/ CreateDefault
    \/ MergeDemo
    \/ Execute
    \/ PreRunStep
    \/ RunBody
    \/ PostRun
    \/ TaskRun
    \/ TaskDone
    \/ TaskHang
    \/ AfterExecute
    \/ WaitReturns
    \/ StartProcess

Spec == Init /\ [][Next]_vars

\* the steps of main() and of the hooks it runs, one path of control
MainStep ==
    \/ ReadConfig
    \/ CreateDefault
    \/ MergeDemo
    \/ Execute
    \/ PreRunStep
    \/ RunBody
    \/ PostRun
    \/ AfterExecute
    \/ WaitReturns

\* the Go scheduler runs main and every runnable goroutine
LiveSpec ==
    /\ Spec
    /\ WF_vars(MainStep)
    /\ WF_vars(TaskRun)
    /\ WF_vars(TaskDone)

\* another pb instance persists a configuration while this one runs: its
\* own bootstrap creates the file, or one of its profile commands rewrites it
OtherInstanceWrites ==
    /\ pc # "exited"
    /\ otherWrites < MaxOtherWrites
    /\ file.kind \in {"absent", "config"}
    /\ \E f \in (IF file.kind = "absent"
                 THEN {ConfigFile(NewDefaultConfig.profiles, NewDefaultConfig.defaultProfile)}
                 ELSE ProfileBodyEdits(file) \ {file}) :
         /\ file' = f
         /\ raceFile' = IF pc \in {"create", "merge"} THEN f ELSE raceFile
    /\ otherWrites' = otherWrites + 1
    /\ bootLog' = << >>
    /\ UNCHANGED <<startFile, ulid, runs, pc, cmd, analyticsOff, readErr,
                   previousConfig, loaded, hookIdx, preRunLog, preRunFailed,
                   bodyRan, bodyOk, executeErr, returned, dispatched, wg, task,
                   sinkCalls, waitCalls, exitCode, bootWrote, bootWriteFailed,
                   taskResult>>

NextRace == Next \/ OtherInstanceWrites

\* two pb instances share the configuration file
SpecRace == Init /\ [][NextRace]_vars

TypeOK ==
    /\ file.kind \in {"absent", "bad", "config"}
    /\ pc \in {"start", "create", "merge", "booted", "prerun", "body",
               "postrun", "returned", "waiting", "exited"}
    /\ wg \in 0..1
    /\ runs \in 1..MaxRuns

\* ------------------------------------------------------------------------
\* Properties
\* ------------------------------------------------------------------------
IsPrefix(a, b) == Len(a) <= Len(b) /\ \A i \in 1..Len(a) : a[i] = b[i]

\* the bootstrap of this process has just finished a merge of a
\* configuration that was read without error
MergedLoaded == pc = "booted" /\ readErr = "nil"

\* C1: when bootstrap merges into a configuration that was read successfully,
\* every profile other than "demo" is persisted exactly as it was stored; if
\* the stored configuration has a "demo" entry, the set of profile names and
\* defaultProfile are persisted unchanged as well.  This holds in every
\* invocation of a sequence of invocations.
C1_MergePreservation ==
    MergedLoaded =>
        /\ startFile.kind = "config"
        /\ \A n \in (DOMAIN startFile.profiles) \ {"demo"} :
              /\ n \in DOMAIN file.profiles
              /\ file.profiles[n] = startFile.profiles[n]
        /\ ("demo" \in DOMAIN startFile.profiles =>
              /\ DOMAIN file.profiles = DOMAIN startFile.profiles
              /\ file.defaultProfile = startFile.defaultProfile)

\* a second invocation has merged {"demo": X, "work": Y} with default "work"
C1_Witness ==
    /\ MergedLoaded
    /\ runs = 2
    /\ DOMAIN startFile.profiles = {"demo", "work"}
    /\ startFile.profiles["demo"] = StaleDemoProfile
    /\ startFile.profiles["work"] = WorkProfile
    /\ startFile.defaultProfile = "work"
    /\ file.profiles["demo"] # StaleDemoProfile

\* C2: two bootstraps in a row from an empty store each persist a
\* configuration with exactly the profile "demo" and defaultProfile "demo",
\* and the second persists the same configuration as the first.
C2_BootstrapIdempotence ==
    \A i \in 1..(Len(bootLog) - 1) :
        bootLog[i].from = "create" =>
            /\ DOMAIN bootLog[i].cfg.profiles = {"demo"}
            /\ bootLog[i].cfg.defaultProfile = "demo"
            /\ DOMAIN bootLog[i + 1].cfg.profiles = {"demo"}
            /\ bootLog[i + 1].cfg.defaultProfile = "demo"
            /\ bootLog[i + 1].cfg = bootLog[i].cfg

\* C3: merging into a configuration without a "demo" entry adds the demo
\* profile with the well-known values, makes it the default and keeps every
\* other profile; merging into one with a "demo" entry sets the entry's url,
\* username and password to the same well-known values.
C3_BootstrapMergeValues ==
    MergedLoaded =>
        IF "demo" \in DOMAIN startFile.profiles
        THEN /\ file.profiles["demo"].url = defaultInitialProfile.url
             /\ file.profiles["demo"].username = defaultInitialProfile.username
             /\ file.profiles["demo"].password = defaultInitialProfile.password
        ELSE /\ file.profiles = Put(startFile.profiles, "demo", defaultInitialProfile)
             /\ file.defaultProfile = "demo"

\* C4: a read that fails for a reason other than absence is an
\* initialization error: the configuration it returned is neither merged
\* into nor written back, no command runs, and the process exits non-zero.
C4_ReadFailureIsInitError ==
    (readErr = "other" /\ startFile.kind = "bad") =>
        /\ previousConfig = loaded
        /\ ~bootWrote
        /\ pc \in {"merge", "exited"}
        /\ ~bodyRan
        /\ (pc = "exited" => exitCode # 0)

\* the stored configuration names a default profile that does not exist
StartedInvalid == startFile.kind = "config" /\ ~ValidConfig(startFile)

\* C5: with a stored defaultProfile that names no profile, no command body
\* executes (whatever the command), the process exits non-zero, and
\* bootstrap does not persist a configuration that violates the invariant.
C5_InvalidDefaultFailsLoad ==
    StartedInvalid =>
        /\ ~bodyRan
        /\ (pc = "exited" => exitCode # 0)
        /\ (bootWrote => ValidConfig(file))

\* C6 as claimed: before the body of a command that needs a target profile
\* the steps are bootstrap, session identity, profile resolution, in that
\* order; resolution never precedes the session-identity step.
C6_SessionIdentityBeforeResolve ==
    cmd \in GroupCommands => IsPrefix(preRunLog, <<"bootstrap", "ulid", "resolve">>)

\* C6: before the body of a command whose pre-run hook is combinedPreRun the
\* steps are bootstrap, profile resolution, session identity, in that order;
\* the session-identity step never precedes resolution, and the body runs
\* only after all three.
C6_PreRunOrder ==
    cmd \in GroupCommands =>
        /\ IsPrefix(preRunLog, <<"bootstrap", "resolve", "ulid">>)
        /\ (bodyRan => preRunLog = <<"bootstrap", "resolve", "ulid">>)

\* the body of a group command runs after the three steps
C6_Witness ==
    /\ cmd \in GroupCommands
    /\ bodyRan
    /\ preRunLog = <<"bootstrap", "resolve", "ulid">>

\* C7: when a pre-run step fails, the hook has returned an error to Execute,
\* the command body is never entered, and the process exits with a non-zero
\* code.
C7_PreRunFailureAborts ==
    preRunFailed =>
        /\ executeErr
        /\ returned
        /\ ~bodyRan
        /\ pc \in {"returned", "exited"}
        /\ (pc = "exited" => exitCode # 0)

\* combinedPreRun failed at its session-identity step and the process exited
C7_Witness ==
    /\ cmd \in GroupCommands
    /\ preRunFailed
    /\ preRunLog = <<"bootstrap", "resolve", "ulid">>
    /\ pc = "exited"
    /\ exitCode = 1

\* C8 as claimed: once Execute has returned from an invocation whose body
\* ran, exactly one telemetry task was dispatched unless telemetry is
\* disabled, whether the body succeeded or failed.
C8_PostRunAlwaysDispatches ==
    (returned /\ bodyRan) => dispatched = (IF analyticsOff THEN 0 ELSE 1)

\* C8: once Execute has returned from an invocation whose body ran, exactly
\* one telemetry task was dispatched if the body succeeded and telemetry is
\* enabled, and none otherwise.
C8_PostRunDispatchOnSuccess ==
    (returned /\ bodyRan) =>
        dispatched = (IF bodyOk /\ ~analyticsOff THEN 1 ELSE 0)

\* a successful body with telemetry enabled has dispatched its task
C8_Witness ==
    /\ returned
    /\ bodyRan
    /\ bodyOk
    /\ ~analyticsOff
    /\ dispatched = 1
    /\ wg = 1

\* C9 as claimed: a process that terminates after Execute returned has
\* called wg.Wait exactly once.
C9_WaitOnEveryPath ==
    (pc = "exited" /\ returned) => waitCalls = 1

\* C9: a process that terminates after Execute returned nil has called
\* wg.Wait exactly once and exits 0; one that terminates after Execute
\* returned an error has not called wg.Wait and exits 1.
C9_WaitOnSuccessOnly ==
    /\ waitCalls <= 1
    /\ (pc = "exited" /\ returned) =>
          /\ waitCalls = (IF executeErr THEN 0 ELSE 1)
          /\ exitCode = (IF executeErr THEN 1 ELSE 0)

\* the root command without a flag failed in its body and the process exited
C9_Witness ==
    /\ pc = "exited"
    /\ returned
    /\ cmd = "root"
    /\ bodyRan
    /\ executeErr
    /\ waitCalls = 0
    /\ exitCode = 1

\* C10: with PB_ANALYTICS=disable the barrier is never incremented, no
\* goroutine is spawned, the sink is never called, and the barrier wait is
\* never blocked.
C10_TelemetryOptOut ==
    analyticsOff =>
        /\ wg = 0
        /\ dispatched = 0
        /\ task = "none"
        /\ sinkCalls = 0
        /\ (pc = "waiting" => ENABLED WaitReturns)

\* a successful command with telemetry disabled went through the post-run
\* hook and the barrier wait
C10_Witness ==
    /\ analyticsOff
    /\ bodyOk
    /\ waitCalls = 1
    /\ pc = "exited"
    /\ exitCode = 0

\* C11: the post-run hook hands the telemetry call to a goroutine and
\* returns without running it (the step that dispatches leaves the task not
\* started, the sink not called), and a process that exits through the
\* barrier wait does so only after the task has finished.
C11_DispatchNonBlocking ==
    /\ [][(pc = "postrun" /\ pc' = "returned" /\ dispatched' = dispatched + 1)
            => (task' = "spawned" /\ sinkCalls' = sinkCalls /\ taskResult' = "none")]_vars
    /\ []((pc = "exited" /\ waitCalls = 1) => task \in {"none", "finished"})

\* Execute has returned the command's result and main is at the barrier
\* while the dispatched task has not even started
C11_Witness ==
    /\ pc = "waiting"
    /\ returned
    /\ ~executeErr
    /\ task = "spawned"
    /\ sinkCalls = 0

\* C12: the exit code and the result Execute reports depend on the
\* command's own outcome only: 0 / nil exactly when the body returned nil,
\* whatever the telemetry task did and whether telemetry is enabled.
C12_ExitCodeIgnoresTelemetry ==
    /\ (returned => executeErr = ~bodyOk)
    /\ ((pc = "exited" /\ returned) => exitCode = (IF bodyOk THEN 0 ELSE 1))

\* a command succeeded, its telemetry task failed, and the process exited 0
C12_Witness ==
    /\ pc = "exited"
    /\ bodyOk
    /\ taskResult = "failed"
    /\ exitCode = 0

\* C13: in every state where the process has exited, no dispatched
\* telemetry task is unfinished and the barrier counter is zero.
C13_NoExitWithTaskInFlight ==
    pc = "exited" => (wg = 0 /\ task \in {"none", "finished"})

\* the process exited after a task it had dispatched finished
C13_Witness ==
    /\ pc = "exited"
    /\ dispatched = 1
    /\ task = "finished"
    /\ waitCalls = 1

\* C14: a failed bootstrap write ends the process with a non-zero code
\* before Execute: no pre-run step, no command body, no dispatch, and the
\* file is as it was.
C14_WriteFailureIsFatal ==
    bootWriteFailed =>
        /\ pc = "exited"
        /\ exitCode = 1
        /\ ~bootWrote
        /\ file = startFile
        /\ preRunLog = << >>
        /\ ~returned
        /\ ~bodyRan
        /\ dispatched = 0

\* the write of the merge branch failed
C14_Witness ==
    /\ bootWriteFailed
    /\ readErr = "nil"
    /\ pc = "exited"
    /\ exitCode = 1

\* C15: whenever a pre-run step or a command body is about to run, for any
\* command, bootstrap has completed its write, and the persisted
\* configuration exists and has a "demo" profile.
C15_BootstrapBeforeHooks ==
    pc \in {"prerun", "body"} =>
        /\ bootWrote
        /\ Len(preRunLog) >= 1
        /\ preRunLog[1] = "bootstrap"
        /\ file.kind = "config"
        /\ "demo" \in DOMAIN file.profiles

\* the body of a root-attached command is about to run on a store that had
\* profiles but no demo entry
C15_Witness ==
    /\ pc = "body"
    /\ cmd = "version"
    /\ startFile.kind = "config"
    /\ DOMAIN startFile.profiles = {"work"}

\* the process started without a store or with a valid configuration
StartedValid ==
    \/ startFile.kind = "absent"
    \/ (startFile.kind = "config" /\ ValidConfig(startFile))

\* C16: from no store or a valid stored configuration, the configuration
\* bootstrap persists is valid again (its defaultProfile is empty or names
\* a profile), in every invocation of a sequence.
C16_BootstrapKeepsInvariant ==
    (StartedValid /\ pc = "booted") => (file.kind = "config" /\ ValidConfig(file))

\* a second invocation bootstrapped a store that had no default selected
C16_Witness ==
    /\ runs = 2
    /\ pc = "booted"
    /\ startFile.kind = "config"
    /\ startFile.defaultProfile = ""
    /\ file.defaultProfile = "demo"

\* C17: under fair scheduling, a process at the barrier wait eventually
\* exits unless its telemetry task hangs; and a process whose task hangs
\* never exits.
C17_WaitUnbounded ==
    /\ (pc = "waiting" ~> (pc = "exited" \/ task = "hung"))
    /\ [](task = "hung" => pc # "exited")

\* main is blocked in wg.Wait on a task that hangs
C17_Witness ==
    /\ pc = "waiting"
    /\ task = "hung"
    /\ wg = 1

\* C18: the write of the merge branch persists the profiles read at line
\* 316 (other than "demo"), whatever another instance wrote in between.
C18_WriteIgnoresConcurrentChange ==
    [][(pc = "merge" /\ pc' = "booted")
         => Drop(file'.profiles, "demo") = Drop(loaded.profiles, "demo")]_vars

\* lost update: another instance added "work" between this instance's read
\* and write, and this instance's bootstrap overwrote the file without it
C18_Witness ==
    /\ pc = "booted"
    /\ bootWrote
    /\ raceFile.kind = "config"
    /\ "work" \in DOMAIN raceFile.profiles
    /\ "work" \notin DOMAIN loaded.profiles
    /\ file.kind = "config"
    /\ "work" \notin DOMAIN file.profiles

\* dispatched tasks that have not finished
Unfinished == IF task \in {"spawned", "running", "hung"} THEN 1 ELSE 0

\* C19: the WaitGroup counter equals the number of dispatched tasks that
\* have not finished and is never negative; the counter is raised in the
\* post-run hook, which main has left before it calls wg.Wait, so nothing
\* is dispatched once the wait has begun.
C19_BarrierAccounting ==
    /\ wg = Unfinished
    /\ wg >= 0
    /\ dispatched = (IF task = "none" THEN 0 ELSE 1)
    /\ (waitCalls > 0 => pc \in {"waiting", "exited"})
    /\ (pc = "postrun" => (waitCalls = 0 /\ task = "none"))

\* the task finished and decremented the counter while main waits
C19_Witness ==
    /\ pc = "waiting"
    /\ dispatched = 1
    /\ task = "finished"
    /\ wg = 0

\* C20: two bootstraps in a row on an existing store persist the same
\* configuration.
C20_BootstrapIdempotentOnStore ==
    \A i \in 1..(Len(bootLog) - 1) :
        bootLog[i].from = "merge" => bootLog[i + 1].cfg = bootLog[i].cfg

====
